---- MODULE Spec2Model ----
(***************************************************************************)
(* Model of the stock-sentiment web application:                           *)
(*   webapp/sentiment_service.py  the TTL cache in front of the pipeline   *)
(*   webapp/models.py             the User table and password hashing      *)
(*   webapp/app.py                the Flask routes and the session guard   *)
(* Every client has at most one request in flight; the requests of         *)
(* different clients are served by different threads and interleave at     *)
(* every access to shared state (the cache, the user table, the clock).    *)
(***************************************************************************)
EXTENDS Integers, Sequences, FiniteSets, TLC

(* ------------------------------ bounds --------------------------------- *)
MaxInvocations == 2
MaxTicks == 2

\* Two clients: the least number whose requests overlap.
Clients == {1, 2}

(* --------------------------- text helpers ------------------------------ *)
\* Python strings are sequences of one-character strings.
UpperLetters == <<"A","B","C","D","E","F","G","H","I","J","K","L","M",
                  "N","O","P","Q","R","S","T","U","V","W","X","Y","Z">>
LowerLetters == <<"a","b","c","d","e","f","g","h","i","j","k","l","m",
                  "n","o","p","q","r","s","t","u","v","w","x","y","z">>

LowerChar(ch) ==
    IF \E i \in DOMAIN UpperLetters : UpperLetters[i] = ch
    THEN LowerLetters[CHOOSE i \in DOMAIN UpperLetters : UpperLetters[i] = ch]
    ELSE ch

\* str.lower()
lower(s) == [i \in DOMAIN s |-> LowerChar(s[i])]

IsSpace(ch) == ch = " "

RECURSIVE lstrip(_)
lstrip(s) == IF s # <<>> /\ IsSpace(Head(s)) THEN lstrip(Tail(s)) ELSE s

RECURSIVE rstrip(_)
rstrip(s) ==
    IF s # <<>> /\ IsSpace(s[Len(s)]) THEN rstrip(SubSeq(s, 1, Len(s) - 1)) ELSE s

\* str.strip()
strip(s) == rstrip(lstrip(s))

positive == <<"p","o","s","i","t","i","v","e">>
negative == <<"n","e","g","a","t","i","v","e">>
timestamp == <<"t","i","m","e","s","t","a","m","p">>

\* Literal["positive", "negative"]
Modes == {positive, negative}

(* ------------------------- sentiment_service --------------------------- *)
CACHE_TTL_SECONDS == 30 * 60

\* The value None and the parsed figure of pipeline invocation n.
None == [kind |-> "None", inv |-> 0]

\* time.time() at process start is far beyond the TTL; the least such
\* reading keeps the boundary of the staleness check within reach.
StartTime == CACHE_TTL_SECONDS
HalfTtl == CACHE_TTL_SECONDS \div 2
MaxTime == StartTime + MaxTicks * HalfTtl

\* changed: the timestamp starts as the time of the import, not as 0
InitialCacheStamped ==
    [k \in {timestamp, positive, negative} |-> IF k = timestamp THEN StartTime ELSE None]

\* _CACHE as the module is loaded.
InitialCache ==
    [k \in {timestamp, positive, negative} |-> IF k = timestamp THEN 0 ELSE None]

\* The JSON text draw_sentiment_panel returns for one figure; a malformed
\* text lacks its closing brace.
JsonText(mode, n, wellformed) ==
    IF wellformed THEN <<"{", mode, n, "}">> ELSE <<"{", mode, n>>

JsonValid(s) == Len(s) = 4 /\ s[1] = "{" /\ s[4] = "}"

\* json.loads on a well-formed text
json_loads(s) == [kind |-> s[2], inv |-> s[3]]

(* ------------------------------ models --------------------------------- *)
CharCode(ch) ==
    IF \E i \in DOMAIN LowerLetters : LowerLetters[i] = ch
    THEN CHOOSE i \in DOMAIN LowerLetters : LowerLetters[i] = ch
    ELSE 0

RECURSIVE Digest(_, _)
Digest(salt, raw) ==
    IF raw = <<>> THEN salt
    ELSE (Digest(salt, Tail(raw)) * 31 + CharCode(Head(raw)) + 1) % 1009

\* the random salts werkzeug may draw
Salts == {7, 11}

\* werkzeug.security.generate_password_hash with the salt it drew
generate_password_hash(raw, salt) == [salt |-> salt, digest |-> Digest(salt, raw)]

\* werkzeug.security.check_password_hash
check_password_hash(pwhash, raw) == Digest(pwhash.salt, raw) = pwhash.digest

\* User.check_password
check_password(user, raw_password) == check_password_hash(user.password_hash, raw_password)

\* User.query.filter_by(username=username).first() finds a row
UserExists(table, username) == \E u \in table : u.username = username

\* the row filter_by(...).first() returns; the lowest id when several match
FirstUser(table, username) ==
    CHOOSE u \in table : /\ u.username = username
                         /\ \A v \in table : v.username = username => u.id <= v.id

\* changed: the username column is declared without unique=True
UniqueViolationNever(table, username) == FALSE

\* the UNIQUE constraint of the username column, checked by the engine on INSERT
UniqueViolation(table, username) == \E u \in table : u.username = username

\* INSERT of a new row; the integer primary key is the next rowid
Insert(table, username, password_hash) ==
    table \cup {[id |-> Cardinality(table) + 1,
                 username |-> username,
                 password_hash |-> password_hash]}

(* -------------------------------- state -------------------------------- *)
VARIABLES
    clock,        \* time.time()
    CACHE,        \* sentiment_service._CACHE
    users,        \* the rows of the user table
    session,      \* per client, the user id in its session cookie (0: none)
    pc,           \* per client, the position of its request or call
    req,          \* per client, the request being served
    loc,          \* per client, the locals of the code serving it
    out,          \* the last response sent (or value returned) to any client
    invocations,  \* number of pipeline invocations _rebuild_cache has made
    rebuilt,      \* the invocation whose rebuild last stored a timestamp (0: none)
    expiry_invocations  \* invocations since the last timestamp store (2: several)

vars == <<clock, CACHE, users, session, pc, req, loc, out, invocations,
          rebuilt, expiry_invocations>>

(* ------------------------------ requests ------------------------------- *)
Absent == <<"<absent>">>

Request(route, method, username, password, mode) ==
    [route |-> route, method |-> method, username |-> username,
     password |-> password, mode |-> mode]

NoRequest == Request("", "", Absent, Absent, Absent)

RawUsernames == {Absent, <<" ", "a", " ">>, <<"b">>}
RawPasswords == {<<" ">>, <<"x">>, <<"y">>}
RawModes == {Absent, <<"N","e","g","a","t","i","v","e">>, timestamp}
PathModes == {<<"N","E","G","A","T","I","V","E">>, <<"x">>}

Get(route) == Request(route, "GET", Absent, Absent, Absent)

\* the requests a client may send to each route
Requests(route) ==
    CASE route \in {"register", "login"} ->
            {Get(route)} \cup {Request(route, "POST", u, p, Absent) :
                                 u \in RawUsernames, p \in RawPasswords}
      [] route = "api_treemap" ->
            {Request(route, "GET", Absent, Absent, m) : m \in RawModes}
      [] route = "download_csv" ->
            {Request(route, "GET", Absent, Absent, m) : m \in PathModes}
      [] route = "build_treemap_json" ->
            \* a direct call build_treemap_json(mode), written as a request
            {Request(route, "CALL", Absent, Absent, m) : m \in Modes}
      [] OTHER -> {Get(route)}

\* request.form.get(key, default) / request.args.get(key, default)
get(value, default) == IF value = Absent THEN default ELSE value

(* ------------------------------ responses ------------------------------ *)
NoBody == [kind |-> "", inv |-> 0]

Response(status, location, flash, body) ==
    [status |-> status, location |-> location, flash |-> flash, body |-> body]

NoResponse == Response(0, "", "", NoBody)
Redirect(location, flash) == Response(302, location, flash, NoBody)
Render(template) == Response(200, "", "", [kind |-> template, inv |-> 0])
ServerError(exc) == Response(500, "", "", [kind |-> exc, inv |-> 0])
\* jsonify(fig_dict); a direct caller receives the body
Jsonify(fig_dict) == Response(200, "", "", fig_dict)

\* what login_manager.unauthorized() answers with login_view = "login"
RedirectToLogin == Redirect("login", "Please log in to access this page.")

\* The locals of a handler. stored, seen and alone are history: the keys of
\* _CACHE this call has assigned, the value of rebuilt at its staleness
\* check, and whether no other call has been inside build_treemap_json
\* together with it.
NoLocals ==
    [mode |-> <<>>, valid |-> FALSE, data |-> 0,
     fig_pos_json |-> <<>>, fig_neg_json |-> <<>>,
     username |-> <<>>, password_hash |-> [salt |-> 0, digest |-> 0],
     stored |-> {}, seen |-> 0, alone |-> TRUE]

\* positions inside build_treemap_json and _rebuild_cache
BuildPcs == {"build", "fetch", "store_pos", "store_neg", "store_ts", "return"}
RebuildPcs == {"fetch", "store_pos", "store_neg", "store_ts"}

Init ==
    /\ clock = StartTime
    /\ CACHE = InitialCache
    /\ users = {}
    /\ session = [c \in Clients |-> 0]
    /\ pc = [c \in Clients |-> "idle"]
    /\ req = [c \in Clients |-> NoRequest]
    /\ loc = [c \in Clients |-> NoLocals]
    /\ out = NoResponse
    /\ invocations = 0
    /\ rebuilt = 0
    /\ expiry_invocations = 0

service == <<CACHE, invocations, rebuilt, expiry_invocations>>

(* ---------------------------- flask plumbing --------------------------- *)
\* load_user: the row of the session's user id, if the table has it
load_user(user_id) == {u \in users : u.id = user_id}

\* current_user.is_authenticated
is_authenticated(c) == session[c] # 0 /\ load_user(session[c]) # {}

\* changed: the route lacks @login_required
login_required_missing(c) == TRUE

\* @login_required lets the request through
login_required(c) == is_authenticated(c)

\* the handler answers the request at once
Reply(c, response) ==
    /\ out' = response
    /\ UNCHANGED <<pc, req, loc>>

\* the handler goes on with request r at position p
Continue(c, r, p) ==
    /\ req' = [req EXCEPT ![c] = r]
    /\ pc' = [pc EXCEPT ![c] = p]
    /\ UNCHANGED out

\* a request in progress ends: the response goes out, the locals die
Finish(c, response) ==
    /\ out' = response
    /\ pc' = [pc EXCEPT ![c] = "idle"]
    /\ req' = [req EXCEPT ![c] = NoRequest]
    /\ loc' = [loc EXCEPT ![c] = NoLocals]

\* entering build_treemap_json(mode): every call already inside, and this
\* one if there is any, is no longer alone
Enter(c, mode) ==
    LET inside == {d \in Clients : pc[d] \in BuildPcs}
    IN  loc' = [d \in Clients |->
                  IF d = c THEN [loc[c] EXCEPT !.mode = mode, !.alone = (inside = {})]
                  ELSE IF d \in inside THEN [loc[d] EXCEPT !.alone = FALSE]
                  ELSE loc[d]]

\* some thread calls sentiment_service.build_treemap_json(mode) directly
Call(c) ==
    /\ pc[c] = "idle"
    /\ \E r \in Requests("build_treemap_json") :
         /\ Continue(c, r, "build")
         /\ Enter(c, r.mode)
    /\ UNCHANGED <<clock, users, session, service>>

(* -------------------------------- routes ------------------------------- *)
\* @app.route("/")
home_request(c, r) ==
    /\ pc[c] = "idle"
    /\ Reply(c, IF is_authenticated(c) THEN Redirect("dashboard", "")
                   ELSE Redirect("login", ""))
    /\ UNCHANGED <<clock, users, session, service>>

home(c) == \E r \in Requests("home") : home_request(c, r)

\* @app.route("/register"): everything up to db.session.add(user)
register_request(c, r) ==
    /\ pc[c] = "idle"
    /\ LET username == strip(get(r.username, <<>>))
           password == strip(get(r.password, <<>>))
       IN  IF r.method # "POST"
           THEN Reply(c, Render("register.html"))
           ELSE IF username = <<>> \/ password = <<>>
           THEN Reply(c, Redirect("register", "Username and password required."))
           ELSE IF UserExists(users, username)
           THEN Reply(c, Redirect("register", "Username already exists."))
           ELSE /\ \E salt \in Salts :
                     loc' = [loc EXCEPT ![c].username = username,
                                        ![c].password_hash =
                                            generate_password_hash(password, salt)]
                /\ Continue(c, r, "commit")
    /\ UNCHANGED <<clock, users, session, service>>

register(c) == \E r \in Requests("register") : register_request(c, r)

\* db.session.commit() of register and the lines after it
register_commit(c) ==
    /\ pc[c] = "commit"
    /\ IF UniqueViolation(users, loc[c].username)
       THEN /\ Finish(c, ServerError("IntegrityError"))
            /\ UNCHANGED users
       ELSE /\ users' = Insert(users, loc[c].username, loc[c].password_hash)
            /\ Finish(c, Redirect("login", "Registration successful. Please log in."))
    /\ UNCHANGED <<clock, session, service>>

\* changed: login() tests "if user:" and forgets user.check_password
CredentialsOkAnyPassword(table, username, password) == UserExists(table, username)

\* the user login() looks up passes "user and user.check_password(password)"
CredentialsOk(table, username, password) ==
    /\ UserExists(table, username)
    /\ check_password(FirstUser(table, username), password)

\* @app.route("/login")
login_request(c, r) ==
    /\ pc[c] = "idle"
    /\ LET username == strip(get(r.username, <<>>))
           password == strip(get(r.password, <<>>))
       IN  IF r.method # "POST"
           THEN /\ Reply(c, Render("login.html"))
                /\ UNCHANGED session
           ELSE IF CredentialsOk(users, username, password)
           THEN /\ session' = [session EXCEPT ![c] = FirstUser(users, username).id]
                /\ Reply(c, Redirect("dashboard", ""))
           ELSE /\ Reply(c, Redirect("login", "Invalid username or password."))
                /\ UNCHANGED session
    /\ UNCHANGED <<clock, users, service>>

login(c) == \E r \in Requests("login") : login_request(c, r)

\* @app.route("/logout")
logout_request(c, r) ==
    /\ pc[c] = "idle"
    /\ IF ~login_required(c)
       THEN /\ Reply(c, RedirectToLogin)
            /\ UNCHANGED session
       ELSE /\ session' = [session EXCEPT ![c] = 0]
            /\ Reply(c, Redirect("login", ""))
    /\ UNCHANGED <<clock, users, service>>

logout(c) == \E r \in Requests("logout") : logout_request(c, r)

\* changed: the mode is lower-cased but not checked against the two modes
SanitizeModeUnchecked(raw) == lower(raw)

\* the mode both download_csv and api_treemap keep after sanitizing
SanitizeMode(raw) == IF lower(raw) \in Modes THEN lower(raw) ELSE positive

\* @app.route("/download/<mode>"); build_treemap_data calls get_data_to_draw,
\* which returns the two frames or raises
download_csv_request(c, r) ==
    /\ pc[c] = "idle"
    /\ IF ~login_required(c)
       THEN Reply(c, RedirectToLogin)
       ELSE \/ Reply(c, Render(IF SanitizeMode(r.mode) = positive
                                  THEN "top_df.csv" ELSE "low_df.csv"))
            \/ Reply(c, ServerError("PipelineError"))
    /\ UNCHANGED <<clock, users, session, service>>

download_csv(c) == \E r \in Requests("download_csv") : download_csv_request(c, r)

\* @app.route("/dashboard")
dashboard_request(c, r) ==
    /\ pc[c] = "idle"
    /\ Reply(c, IF ~login_required(c) THEN RedirectToLogin
                   ELSE Render("dashboard.html"))
    /\ UNCHANGED <<clock, users, session, service>>

dashboard(c) == \E r \in Requests("dashboard") : dashboard_request(c, r)

\* @app.route("/api/treemap") up to the call of ss.build_treemap_json
api_treemap_request(c, r) ==
    /\ pc[c] = "idle"
    /\ IF ~login_required(c)
       THEN Reply(c, RedirectToLogin)
       ELSE /\ Continue(c, r, "build")
            /\ Enter(c, SanitizeMode(get(r.mode, positive)))
    /\ UNCHANGED <<clock, users, session, service>>

api_treemap(c) == \E r \in Requests("api_treemap") : api_treemap_request(c, r)

(* ------------------- sentiment_service, step by step ------------------- *)
\* changed: "<=" for "<", so a cache exactly one TTL old still counts as fresh
cache_valid_inclusive(now, cache) == (now - cache[timestamp]) <= CACHE_TTL_SECONDS

\* _cache_valid()
cache_valid(now, cache) == (now - cache[timestamp]) < CACHE_TTL_SECONDS

\* changed: the check-then-rebuild sequence is taken under a lock, so a call
\* waits at the check while another call is rebuilding
build_treemap_json_locked(c) ==
    /\ pc[c] = "build"
    /\ \A d \in Clients \ {c} : pc[d] \notin RebuildPcs
    /\ LET valid == cache_valid(clock, CACHE)
       IN  /\ loc' = [loc EXCEPT ![c].valid = valid, ![c].seen = rebuilt]
           /\ pc' = [pc EXCEPT ![c] = IF valid THEN "return" ELSE "fetch"]
    /\ UNCHANGED <<clock, users, session, req, out, service>>

\* build_treemap_json: "if not _cache_valid()"
build_treemap_json(c) ==
    /\ pc[c] = "build"
    /\ LET valid == cache_valid(clock, CACHE)
       IN  /\ loc' = [loc EXCEPT ![c].valid = valid, ![c].seen = rebuilt]
           /\ pc' = [pc EXCEPT ![c] = IF valid THEN "return" ELSE "fetch"]
    /\ UNCHANGED <<clock, users, session, req, out, service>>

\* an exception leaves _rebuild_cache, build_treemap_json and api_treemap
Raise(c, exc) == Finish(c, ServerError(exc))

Several(n) == IF n < 2 THEN n + 1 ELSE 2

\* _rebuild_cache: get_data_to_draw and draw_sentiment_panel; either raises,
\* or the two return the JSON texts of a fresh pair of figures
run_pipeline(c) ==
    /\ pc[c] = "fetch"
    /\ expiry_invocations' = Several(expiry_invocations)
    /\ \/ /\ invocations < MaxInvocations
          /\ invocations' = invocations + 1
          /\ \E pos_ok, neg_ok \in BOOLEAN :
               loc' = [loc EXCEPT
                          ![c].data = invocations + 1,
                          ![c].fig_pos_json = JsonText("positive", invocations + 1, pos_ok),
                          ![c].fig_neg_json = JsonText("negative", invocations + 1, neg_ok)]
          /\ pc' = [pc EXCEPT ![c] = "store_pos"]
          /\ UNCHANGED <<req, out>>
       \/ /\ Raise(c, "PipelineError")
          /\ UNCHANGED invocations
    /\ UNCHANGED <<clock, CACHE, users, session, rebuilt>>

\* one assignment _CACHE[key] = json.loads(text) of _rebuild_cache
StoreFigure(c, key, text, next_pc) ==
    IF JsonValid(text)
    THEN /\ CACHE' = [CACHE EXCEPT ![key] = json_loads(text)]
         /\ loc' = [loc EXCEPT ![c].stored = @ \cup {key}]
         /\ pc' = [pc EXCEPT ![c] = next_pc]
         /\ UNCHANGED <<req, out>>
    ELSE /\ Raise(c, "JSONDecodeError")
         /\ UNCHANGED CACHE

\* _CACHE["positive"] = json.loads(fig_pos_json)
store_positive(c) ==
    /\ pc[c] = "store_pos"
    /\ StoreFigure(c, positive, loc[c].fig_pos_json, "store_neg")
    /\ UNCHANGED <<clock, users, session, invocations, rebuilt, expiry_invocations>>

\* _CACHE["negative"] = json.loads(fig_neg_json)
store_negative(c) ==
    /\ pc[c] = "store_neg"
    /\ StoreFigure(c, negative, loc[c].fig_neg_json, "store_ts")
    /\ UNCHANGED <<clock, users, session, invocations, rebuilt, expiry_invocations>>

\* _CACHE["timestamp"] = time.time()
store_timestamp(c) ==
    /\ pc[c] = "store_ts"
    /\ CACHE' = [CACHE EXCEPT ![timestamp] = clock]
    /\ loc' = [loc EXCEPT ![c].stored = @ \cup {timestamp}]
    /\ pc' = [pc EXCEPT ![c] = "return"]
    /\ rebuilt' = loc[c].data
    /\ expiry_invocations' = 0
    /\ UNCHANGED <<clock, users, session, req, out, invocations>>

\* "return _CACHE[mode]" and jsonify(fig_dict) in api_treemap
return_cached(c) ==
    /\ pc[c] = "return"
    /\ IF loc[c].mode \in DOMAIN CACHE
       THEN Finish(c, Jsonify(CACHE[loc[c].mode]))
       ELSE Raise(c, "KeyError")
    /\ UNCHANGED <<clock, users, session, service>>

\* time passes
Tick ==
    /\ clock + HalfTtl <= MaxTime
    /\ clock' = clock + HalfTtl
    /\ UNCHANGED <<users, session, pc, req, loc, out, service>>

\* a step of build_treemap_json made for client c
ServiceStep(c) ==
    \/ build_treemap_json(c)
    \/ run_pipeline(c)
    \/ store_positive(c)
    \/ store_negative(c)
    \/ store_timestamp(c)
    \/ return_cached(c)

\* sentiment_service alone: threads call build_treemap_json while time passes
NextService ==
    \/ Tick
    \/ \E c \in Clients :
         \/ Call(c)
         \/ ServiceStep(c)

SpecService == Init /\ [][NextService]_vars

\* the routes of the accounts (home, register, login, logout), under every
\* request a client may send them
NextAuth ==
    \E c \in Clients :
       \/ home(c)
       \/ register(c)
       \/ register_commit(c)
       \/ login(c)
       \/ logout(c)

SpecAuth == Init /\ [][NextAuth]_vars

\* The whole application within one reading of the clock, for one account:
\* a registration, logins with the right and with a wrong password, and
\* every route behind @login_required.
Enrol == {Request("register", "POST", <<" ", "a", " ">>, <<"x">>, Absent)}
SignIn == {Request("login", "POST", <<"a">>, p, Absent) : p \in {<<"x">>, <<"y">>}}

NextApp ==
    \E c \in Clients :
       \/ \E r \in Enrol : register_request(c, r)
       \/ register_commit(c)
       \/ \E r \in SignIn : login_request(c, r)
       \/ logout(c)
       \/ download_csv(c)
       \/ dashboard(c)
       \/ api_treemap(c)
       \/ ServiceStep(c)

SpecApp == Init /\ [][NextApp]_vars

(* ======================= properties of the cache ======================= *)
\* the parsed figure invocation n yields for a key of _CACHE
Figure(mode, n) == [kind |-> IF mode = positive THEN "positive" ELSE "negative", inv |-> n]

\* client c leaves build_treemap_json by "return _CACHE[mode]"
Returns(c) == pc[c] = "return" /\ pc'[c] = "idle"

\* client c leaves _rebuild_cache by an exception
Fails(c) == pc[c] \in RebuildPcs /\ pc'[c] = "idle"

\* C1: a call whose staleness check finds the cache fresh invokes no pipeline
\* and returns the value the last successful rebuild before that check stored
\* for its mode.
C1_HitReturnsLastRebuild ==
    [][\A c \in Clients :
          (Returns(c) /\ loc[c].valid) =>
              /\ loc[c].data = 0
              /\ out' = Jsonify(Figure(loc[c].mode, loc[c].seen))]_vars

\* C3: a rebuild that fails propagates the failure and has assigned no field
\* of _CACHE, so the three fields are what they were before the call.
C3_NoPartialOverwrite ==
    [][\A c \in Clients :
          Fails(c) => (out'.status = 500 /\ loc[c].stored = {})]_vars

\* C4: whenever the timestamp marks the cache fresh, the stored positive and
\* negative figures come from the same pipeline invocation.
C4_NoMix ==
    cache_valid(clock, CACHE) => CACHE[positive].inv = CACHE[negative].inv

\* C2 as stated: once the window has elapsed exactly one call invokes the
\* pipeline, so between two stores of the timestamp the pipeline is invoked
\* at most once.
C2_OneInvocationPerExpiry == expiry_invocations <= 1

\* the staleness check of client c takes the branch the elapsed time demands
CheckFollowsTtl(c) ==
    (pc[c] = "build" /\ pc'[c] # "build") =>
        pc'[c] = IF clock - CACHE[timestamp] >= CACHE_TTL_SECONDS
                 THEN "fetch" ELSE "return"

\* a call that found the cache stale invokes the pipeline exactly once, and
\* a call that found it fresh never does
OwnInvocation(c) ==
    /\ (pc[c] = "fetch" /\ pc'[c] = "store_pos") =>
           (invocations' = invocations + 1 /\ loc'[c].data = invocations')
    /\ (pc[c] \in BuildPcs /\ pc'[c] \in BuildPcs /\ pc[c] # "fetch") =>
           loc'[c].data = loc[c].data

\* the timestamp a rebuild stores is the time of the store
FreshStamp(c) ==
    (pc[c] = "store_ts" /\ pc'[c] = "return") => CACHE'[timestamp] = clock

\* a rebuild that overlapped no other call and did not fail has stored both
\* figures of its own invocation
AloneStoresBoth(c) ==
    (pc[c] = "return" /\ ~loc[c].valid /\ loc[c].alone) =>
        /\ loc[c].data # 0
        /\ CACHE[positive] = Figure(positive, loc[c].data)
        /\ CACHE[negative] = Figure(negative, loc[c].data)
        /\ rebuilt = loc[c].data

\* a call that found the cache fresh has invoked nothing
HitInvokesNothing(c) ==
    (pc[c] = "return" /\ loc[c].valid) => (loc[c].data = 0 /\ loc[c].stored = {})

\* C2, amended: after the window has elapsed every call whose staleness
\* check finds the cache stale invokes the pipeline exactly once; a call that
\* overlaps no other call and does not fail stores both figures of that
\* invocation and the time of the store; a call whose check falls inside the
\* new window invokes nothing.
C2_StaleCallRebuildsOnce ==
    /\ [](\A c \in Clients : AloneStoresBoth(c) /\ HitInvokesNothing(c))
    /\ [][\A c \in Clients :
             CheckFollowsTtl(c) /\ OwnInvocation(c) /\ FreshStamp(c)]_vars

\* the first rebuild succeeded at the start; exactly one window later a call
\* running alone has found the cache stale, invoked the pipeline and stored
\* both figures, and is about to store the timestamp
C2_Witness ==
    \E c \in Clients :
        /\ pc[c] = "store_ts" /\ loc[c].alone
        /\ loc[c].seen = 1 /\ loc[c].data = 2
        /\ CACHE[timestamp] = StartTime
        /\ clock = StartTime + CACHE_TTL_SECONDS
        /\ CACHE[positive] = Figure(positive, 2)
        /\ CACHE[negative] = Figure(negative, 2)

\* positions of build_treemap_json in the order the code reaches them
Rank(p) ==
    CASE p = "build" -> 1 [] p = "fetch" -> 2 [] p = "store_pos" -> 3
      [] p = "store_neg" -> 4 [] p = "store_ts" -> 5 [] p = "return" -> 6
      [] OTHER -> 7

\* no call inside build_treemap_json ever waits: it always has a step
NeverBlocked == \A c \in Clients : pc[c] \in BuildPcs => ENABLED ServiceStep(c)

\* every step of a call moves it forward, so it ends after at most six steps
MovesForward(c) ==
    (pc[c] \in BuildPcs /\ pc'[c] # pc[c]) => Rank(pc'[c]) > Rank(pc[c])

\* a call that finds the cache stale rebuilds, whoever else is rebuilding
StaleRebuilds(c) ==
    (pc[c] = "build" /\ pc'[c] # "build" /\ ~cache_valid(clock, CACHE)) =>
        pc'[c] = "fetch"

\* each assignment of _rebuild_cache overwrites the field, whoever wrote it
LastWriteWins(c) ==
    /\ (pc[c] = "store_pos" /\ pc'[c] = "store_neg") =>
           CACHE' = [CACHE EXCEPT ![positive] = Figure(positive, loc[c].data)]
    /\ (pc[c] = "store_neg" /\ pc'[c] = "store_ts") =>
           CACHE' = [CACHE EXCEPT ![negative] = Figure(negative, loc[c].data)]
    /\ (pc[c] = "store_ts" /\ pc'[c] = "return") =>
           CACHE' = [CACHE EXCEPT ![timestamp] = clock]

\* C9: nothing excludes two calls from the check-then-rebuild sequence: each
\* call that finds the cache stale rebuilds, no call ever waits, every call
\* ends, and each field of the slot holds what the last writer assigned.
C9_NoMutualExclusion ==
    /\ []NeverBlocked
    /\ [][\A c \in Clients :
             StaleRebuilds(c) /\ MovesForward(c) /\ LastWriteWins(c)]_vars

\* two calls have rebuilt for one expiry and the slot mixes their figures
C9_Witness ==
    /\ \A c \in Clients : pc[c] = "return" /\ ~loc[c].valid /\ loc[c].seen = 0
    /\ invocations = 2
    /\ CACHE[positive].inv # CACHE[negative].inv

\* C10: the cache is judged fresh only once some rebuild has stored both
\* figures, so a call that returns normally returns a figure of a pipeline
\* invocation, never None.
C10_NeverReturnsNone ==
    /\ cache_valid(clock, CACHE) =>
           /\ CACHE[positive] \in {Figure(positive, n) : n \in 1..invocations}
           /\ CACHE[negative] \in {Figure(negative, n) : n \in 1..invocations}
    /\ \A c \in Clients :
           pc[c] = "return" =>
               CACHE[loc[c].mode] \in {Figure(loc[c].mode, n) : n \in 1..invocations}
    /\ out.status = 200 =>
           (out.body # None /\ out.body.inv \in 1..invocations)

\* a figure came back from a slot that a failed rebuild had half overwritten
C10_Witness ==
    /\ out.status = 200
    /\ out.body.inv = 1
    /\ CACHE[positive].inv = 2
    /\ \A c \in Clients : pc[c] = "idle"

(* ==================== properties of the application ==================== *)
\* the mode a request to /api/treemap asks for, lower-cased
AskedMode(r) == lower(get(r.mode, positive))

\* C5: whatever the mode parameter of a request to /api/treemap, the mode
\* build_treemap_json runs with is positive or negative, and it is positive
\* whenever the parameter names neither.
C5_ModeNormalized ==
    \A c \in Clients :
        pc[c] \in BuildPcs =>
            /\ loc[c].mode \in Modes
            /\ AskedMode(req[c]) \notin Modes => loc[c].mode = positive
            /\ AskedMode(req[c]) \in Modes => loc[c].mode = AskedMode(req[c])

\* a request with mode=timestamp, the cache's own third key, is about to be
\* answered with the positive figure
C5_Witness ==
    \E c \in Clients :
        /\ pc[c] = "return"
        /\ req[c].mode = timestamp
        /\ loc[c].mode = positive
        /\ CACHE[positive] # None

\* C6: the user table never holds two rows with one username.
C6_UsernameUnique ==
    \A u, v \in users : u.username = v.username => u = v

\* two registrations of one name both passed the existence check; the first
\* commit inserted its row and the second was refused by the engine
C6_Witness ==
    /\ out = ServerError("IntegrityError")
    /\ Cardinality(users) = 1
    /\ \A c \in Clients : pc[c] = "idle"

\* the forms a POST to /login can carry
LoginPosts == {r \in Requests("login") : r.method = "POST"}

\* the row whose stored hash the submitted credentials match, if any
Matching(r) ==
    {u \in users : /\ u.username = strip(get(r.username, <<>>))
                   /\ check_password_hash(u.password_hash, strip(get(r.password, <<>>)))}

\* C7: POST /login puts a user in the session exactly when the username
\* exists and the password matches its stored hash; otherwise, whether the
\* password is wrong or the username unknown, the session is left as it was
\* and the answer is the same flash message and the same redirect to login.
C7_LoginOutcome ==
    [][\A r \in LoginPosts : \A c \in Clients :
          login_request(c, r) =>
              IF Matching(r) # {}
              THEN /\ session'[c] \in {u.id : u \in Matching(r)}
                   /\ out' = Redirect("dashboard", "")
              ELSE /\ session' = session
                   /\ out' = Redirect("login", "Invalid username or password.")]_vars

\* a login was refused while "a" is registered and "b" is not: the refusal
\* is the one answer for a wrong password and for an unknown name
C7_Witness ==
    /\ out = Redirect("login", "Invalid username or password.")
    /\ UserExists(users, <<"a">>)
    /\ ~UserExists(users, <<"b">>)
    /\ \E c \in Clients : session[c] # 0

\* a step of a route behind @login_required
GuardedStep(c) == logout(c) \/ download_csv(c) \/ dashboard(c) \/ api_treemap(c)

\* C8: a request to /logout, /download/<mode>, /dashboard or /api/treemap from
\* a client without a session is answered with the redirect to login; it does
\* not enter build_treemap_json, invokes no pipeline and leaves the cache, the
\* sessions and the user table alone; and only a client with a session is
\* ever inside build_treemap_json.
C8_GuardRedirects ==
    /\ [](\A c \in Clients : pc[c] \in BuildPcs => is_authenticated(c))
    /\ [][\A c \in Clients :
             (~is_authenticated(c) /\ GuardedStep(c)) =>
                 /\ out' = RedirectToLogin
                 /\ pc'[c] = "idle"
                 /\ UNCHANGED <<CACHE, invocations, users, session>>]_vars

\* every client is logged out again, the cache holds a rebuild, and the last
\* answer is the guard's redirect
C8_Witness ==
    /\ out = RedirectToLogin
    /\ rebuilt # 0
    /\ users # {}
    /\ \A c \in Clients : session[c] = 0 /\ pc[c] = "idle"

====
